---- MODULE Spec2Model ----
(***************************************************************************)
(* State-machine model of src/mermaidAPI.js: the configuration store and   *)
(* its two-level merge (setConf / initialize / getConfig), the parser      *)
(* dispatch (parse, parseError) and the render pipeline (render behind     *)
(* exports.render).  Values of the JavaScript program are modelled as      *)
(* tagged records so that typeof and truthiness are computed as the        *)
(* language computes them.  The collaborators that live outside the file   *)
(* (parsers, renderers, utils.cloneCssStyles, the callback, the handler    *)
(* mermaid.parseError) either return or raise; which one is an input of    *)
(* the call.                                                               *)
(***************************************************************************)
EXTENDS Integers, Sequences, FiniteSets, TLC

\* Largest number of scratch surfaces the presentation tree may hold.
MaxNodes == 2
\* Largest number of level-1 keys in the argument of one initialize call.
MaxOverrideKeys == 2

VARIABLES
    config,        \* var config: the process-wide configuration store
    tree,          \* the scratch surfaces in the document: under the container, under body
    yy,            \* parser.parser.yy of each parser: the model bound to it
    hasRemove,     \* typeof node.remove === 'function' in this browser
    document,      \* typeof document
    mermaid,       \* typeof mermaid (the global carrying the external handler)
    call,          \* the most recent call of the facade and its arguments
    events,        \* what that call did to its collaborators, in order
    outcome,       \* how that call ended: "returned", "threw" ("none" before any call)
    ret            \* the value that call returned

vars == <<config, tree, yy, hasRemove, document, mermaid, call, events, outcome, ret>>

-----------------------------------------------------------------------------
(* JavaScript values of the configuration tree *)

Lvl2Keys == {"htmlLabels", "useMaxWidth", "barHeight"}

EmptyObj == [k \in Lvl2Keys |-> "undefined"]

Undefined == [kind |-> "undefined", val |-> "undefined", obj |-> EmptyObj]

Null == [kind |-> "null", val |-> "null", obj |-> EmptyObj]

Scalar(v) == [kind |-> "scalar", val |-> v, obj |-> EmptyObj]

Object(o) == [kind |-> "object", val |-> "object", obj |-> o]

typeof(v) ==
    CASE v.kind = "undefined" -> "undefined"
      [] v.kind = "scalar"    -> "boolean"
      [] v.kind = "null"      -> "object"
      [] v.kind = "object"    -> "object"

truthy(v) ==
    CASE v.kind = "undefined" -> FALSE
      [] v.kind = "null"      -> FALSE
      [] v.kind = "scalar"    -> v.val = "true"
      [] v.kind = "object"    -> TRUE

\* Object.keys of a namespace object
ObjectKeys(o) == {k \in Lvl2Keys : o[k] # "undefined"}

ConfigKeys ==
    {"cloneCssStyles", "startOnLoad", "flowchart", "sequenceDiagram", "gantt", "extra"}

\* var config = {...}: the built-in defaults ("extra" is a key the defaults lack)
DefaultConfig ==
    [k \in ConfigKeys |->
        CASE k = "cloneCssStyles"  -> Scalar("true")
          [] k = "startOnLoad"     -> Scalar("true")
          [] k = "flowchart"       ->
                Object([EmptyObj EXCEPT !["htmlLabels"] = "true", !["useMaxWidth"] = "true"])
          [] k = "sequenceDiagram" -> Object([EmptyObj EXCEPT !["useMaxWidth"] = "true"])
          [] k = "gantt"           -> Object([EmptyObj EXCEPT !["barHeight"] = "20"])
          [] k = "extra"           -> Undefined]

-----------------------------------------------------------------------------
(* setConf: the two-level merge *)

\* The inner loop over lvl2Keys: config[key] is created when undefined, and
\* each config[key][k2] = cnf[key][k2] is an assignment to a property of
\* config[key], which has no effect when config[key] is a primitive.
mergeLvl2(cur, o) ==
    IF ObjectKeys(o) = {} THEN cur
    ELSE IF typeof(cur) = "undefined" THEN Object(o)
    ELSE IF cur.kind = "object"
         THEN Object([k \in Lvl2Keys |-> IF o[k] # "undefined" THEN o[k] ELSE cur.obj[k]])
    ELSE cur

\* The outer loop from index i on.  Object.keys(null) raises a TypeError,
\* which leaves the keys before it merged.
RECURSIVE setConfFrom(_, _, _)
setConfFrom(cnf, i, cfg) ==
    IF i > Len(cnf) THEN [config |-> cfg, threw |-> FALSE]
    ELSE LET key == cnf[i].key
             value == cnf[i].value
         IN  IF typeof(value) = "object"
             THEN IF value.kind = "null"
                  THEN [config |-> cfg, threw |-> TRUE]
                  ELSE setConfFrom(cnf, i + 1,
                                   [cfg EXCEPT ![key] = mergeLvl2(cfg[key], value.obj)])
             ELSE setConfFrom(cnf, i + 1, [cfg EXCEPT ![key] = value])

setConf(cnf, cfg) == setConfFrom(cnf, 1, cfg)

NoText == "none"

NoId == "none"

\* An argument of initialize that is an object, null, or not an object at all
ObjectOptions(props) == [kind |-> "object", props |-> props]

NullOptions == [kind |-> "null", props |-> <<>>]

UndefinedOptions == [kind |-> "undefined", props |-> <<>>]

NoCall ==
    [op |-> "none", id |-> NoId, txt |-> NoText, cb |-> "undefined",
     container |-> "undefined", options |-> UndefinedOptions]

\* exports.initialize(options): an object is given as the sequence of its
\* own enumerable properties in Object.keys order; typeof null is 'object'
\* too, and Object.keys(null) raises.
initialize(options) ==
    LET r == IF options.kind = "object" THEN setConf(options.props, config)
             ELSE IF options.kind = "null" THEN [config |-> config, threw |-> TRUE]
             ELSE [config |-> config, threw |-> FALSE]
    IN  /\ config' = r.config
        /\ outcome' = IF r.threw THEN "threw" ELSE "returned"
        /\ call' = [NoCall EXCEPT !.op = "initialize", !.options = options]
        /\ events' = <<>>
        /\ ret' = "undefined"
        /\ UNCHANGED <<tree, yy, hasRemove, document, mermaid>>

\* exports.getConfig(): returns the live store
getConfig == config

-----------------------------------------------------------------------------
(* The presentation tree and the d3 calls render makes on it *)

Ids == {"id1"}

\* Document order: the container is an element of the page, the surfaces
\* appended to body come after everything the page held.
DocOrder(t) == t.container \o t.body

\* d3.select(container).append('div').attr('id', 'd'+id)... or the same
\* under d3.select('body').  A surface is named by the id it was derived
\* from; a container that is given names an element of the page.
append(t, container, id) ==
    IF container # "undefined"
    THEN [t EXCEPT !.container = Append(@, id)]
    ELSE [t EXCEPT !.body = Append(@, id)]

\* d3.select('#d'+id).node(): the first match in document order, or null
selectNode(t, id) ==
    IF \E i \in 1..Len(DocOrder(t)) : DocOrder(t)[i] = id THEN id ELSE NoId

removeFirstOf(s, id) ==
    LET i == CHOOSE j \in 1..Len(s) : s[j] = id /\ \A l \in 1..(j - 1) : s[l] # id
    IN  SubSeq(s, 1, i - 1) \o SubSeq(s, i + 1, Len(s))

\* d3.select('#d'+id).node().remove(): detaches the first match
removeNode(t, id) ==
    IF \E i \in 1..Len(t.container) : t.container[i] = id
    THEN [t EXCEPT !.container = removeFirstOf(@, id)]
    ELSE [t EXCEPT !.body = removeFirstOf(@, id)]

-----------------------------------------------------------------------------
(* Diagram texts and utils.detectType *)

\* A text is modelled by its first significant token.
Texts == {"graph", "digraph", "sequenceDiagram", "gantt", "info", "other"}

\* utils.detectType(text): the tag of the text, "unrecognized" when no rule matches
detectType(text) ==
    CASE text = "graph"           -> "graph"
      [] text = "digraph"         -> "dotGraph"
      [] text = "sequenceDiagram" -> "sequenceDiagram"
      [] text = "gantt"           -> "gantt"
      [] text = "info"            -> "info"
      [] OTHER                    -> "unrecognized"

-----------------------------------------------------------------------------
(* render *)

\* One call on a collaborator: who was called, which operation, with what.
NoEvent ==
    [who |-> "none", op |-> "none", conf |-> Undefined, txt |-> NoText,
     id |-> NoId, flag |-> "none", classes |-> {}, raised |-> FALSE]

setConfEv(who, conf) == [NoEvent EXCEPT !.who = who, !.op = "setConf", !.conf = conf]

drawEv(who, txt, id, flag) ==
    [NoEvent EXCEPT !.who = who, !.op = "draw", !.txt = txt, !.id = id, !.flag = flag]

\* classes = renderer.getClasses(txt, flag): the call and what it returned
getClassesEv(who, txt, flag, classes) ==
    [NoEvent EXCEPT !.who = who, !.op = "getClasses", !.txt = txt, !.flag = flag,
                    !.classes = classes]

\* utils.cloneCssStyles(element.firstChild, classes), element = '#d'+id
cloneCssStylesEv(id, classes) ==
    [NoEvent EXCEPT !.who = "utils", !.op = "cloneCssStyles", !.id = id, !.classes = classes]

\* What flowRenderer.getClasses may return
ClassSets == {{}, {"cls"}}

\* if(config.cloneCssStyles){ utils.cloneCssStyles(element.firstChild, []); }
cloneEmpty(id, cfg) ==
    IF truthy(cfg["cloneCssStyles"]) THEN <<cloneCssStylesEv(id, {})>> ELSE <<>>

\* case 'graph': the calls made when none raises; classes is what
\* getClasses returns
caseGraph(txt, id, classes, cfg) ==
    <<setConfEv("flowRenderer", cfg["flowchart"]),
      drawEv("flowRenderer", txt, id, "false")>>
    \o (IF truthy(cfg["cloneCssStyles"])
        THEN <<getClassesEv("flowRenderer", txt, "false", classes),
               cloneCssStylesEv(id, classes)>>
        ELSE <<>>)

\* A dotGraph case that passes the variant flag of the graph case.
caseDotGraphAsGraph(txt, id, classes, cfg) ==
    <<setConfEv("flowRenderer", cfg["flowchart"]),
      drawEv("flowRenderer", txt, id, "false")>>
    \o (IF truthy(cfg["cloneCssStyles"])
        THEN <<getClassesEv("flowRenderer", txt, "true", classes),
               cloneCssStylesEv(id, classes)>>
        ELSE <<>>)

\* case 'dotGraph'
caseDotGraph(txt, id, classes, cfg) ==
    <<setConfEv("flowRenderer", cfg["flowchart"]),
      drawEv("flowRenderer", txt, id, "true")>>
    \o (IF truthy(cfg["cloneCssStyles"])
        THEN <<getClassesEv("flowRenderer", txt, "true", classes),
               cloneCssStylesEv(id, classes)>>
        ELSE <<>>)

\* A sequenceDiagram case that clones whatever the cloneCssStyles flag says.
caseSequenceDiagramAlwaysClone(txt, id, cfg) ==
    <<setConfEv("seq", cfg["sequenceDiagram"]),
      drawEv("seq", txt, id, "none"),
      cloneCssStylesEv(id, {})>>

\* case 'sequenceDiagram'
caseSequenceDiagram(txt, id, cfg) ==
    <<setConfEv("seq", cfg["sequenceDiagram"]),
      drawEv("seq", txt, id, "none")>>
    \o cloneEmpty(id, cfg)

\* case 'gantt'
caseGantt(txt, id, cfg) ==
    <<setConfEv("gantt", cfg["gantt"]),
      drawEv("gantt", txt, id, "none")>>
    \o cloneEmpty(id, cfg)

\* case 'info': info.draw(txt, id, exports.version()), no setConf
caseInfo(txt, id, cfg) ==
    <<drawEv("info", txt, id, "none")>> \o cloneEmpty(id, cfg)

\* A switch whose last case also takes every type no case names.
switchGraphTypeWithDefault(graphType, txt, id, classes, cfg) ==
    CASE graphType = "graph"           -> caseGraph(txt, id, classes, cfg)
      [] graphType = "dotGraph"        -> caseDotGraph(txt, id, classes, cfg)
      [] graphType = "sequenceDiagram" -> caseSequenceDiagram(txt, id, cfg)
      [] graphType = "gantt"           -> caseGantt(txt, id, cfg)
      [] OTHER                         -> caseInfo(txt, id, cfg)

\* switch(graphType) of render: no case matches any other type
switchGraphType(graphType, txt, id, classes, cfg) ==
    CASE graphType = "graph"           -> caseGraph(txt, id, classes, cfg)
      [] graphType = "dotGraph"        -> caseDotGraph(txt, id, classes, cfg)
      [] graphType = "sequenceDiagram" -> caseSequenceDiagram(txt, id, cfg)
      [] graphType = "gantt"           -> caseGantt(txt, id, cfg)
      [] graphType = "info"            -> caseInfo(txt, id, cfg)
      [] OTHER                         -> <<>>

\* The operations of a collaborator that may raise in a call ("none": nothing does)
FailPoints == {"none", "setConf", "draw", "getClasses", "cloneCssStyles", "cb"}

\* The calls actually made: the plan up to and including the first call of
\* the operation that raises; nothing catches it.
RECURSIVE runUntilRaise(_, _)
runUntilRaise(plan, fail) ==
    IF plan = <<>> THEN <<>>
    ELSE IF Head(plan).op = fail
         THEN <<[Head(plan) EXCEPT !.raised = TRUE]>>
         ELSE <<Head(plan)>> \o runUntilRaise(Tail(plan), fail)

raised(evs) == evs # <<>> /\ evs[Len(evs)].raised

appendEv(id) == [NoEvent EXCEPT !.who = "d3", !.op = "append", !.id = id]

\* d3.select('#d'+id).node().innerHTML, the base-tag fix applied
innerHTMLEv(id) == [NoEvent EXCEPT !.who = "d3", !.op = "innerHTML", !.id = id]

\* cb(svgCode, graph.bindFunctions) when a callback was given, log.warn otherwise
reportEv(id, cb, fail) ==
    IF cb # "undefined"
    THEN [NoEvent EXCEPT !.who = "cb", !.op = "cb", !.id = id, !.raised = (fail = "cb")]
    ELSE [NoEvent EXCEPT !.who = "log", !.op = "warn"]

removeEv(id) == [NoEvent EXCEPT !.who = "d3", !.op = "remove", !.id = id]

\* var render = function(id, txt, cb, container)
render(id, txt, cb, container, fail, classes) ==
    LET t1 == append(tree, container, id)
        graphType == detectType(txt)
        dispatched == runUntilRaise(switchGraphType(graphType, txt, id, classes, config), fail)
        report == reportEv(id, cb, fail)
        node == selectNode(t1, id)
        removes == node # NoId /\ hasRemove
    IN  /\ call' = [NoCall EXCEPT !.op = "render", !.id = id, !.txt = txt, !.cb = cb,
                                  !.container = container]
        /\ IF raised(dispatched)
           THEN /\ events' = <<appendEv(id)>> \o dispatched
                /\ tree' = t1
                /\ outcome' = "threw"
           ELSE IF report.raised
           THEN /\ events' = <<appendEv(id)>> \o dispatched \o <<innerHTMLEv(id), report>>
                /\ tree' = t1
                /\ outcome' = "threw"
           ELSE /\ events' = <<appendEv(id)>> \o dispatched \o <<innerHTMLEv(id), report>>
                             \o (IF removes THEN <<removeEv(id)>> ELSE <<>>)
                /\ tree' = IF removes THEN removeNode(t1, id) ELSE t1
                /\ outcome' = "returned"
        /\ ret' = "undefined"
        /\ UNCHANGED <<config, yy, hasRemove, document, mermaid>>

\* exports.render = function(id, text, cb, containerElement)
exportsRender(id, text, cb, containerElement, fail, classes) ==
    IF document = "undefined"
    THEN /\ call' = [NoCall EXCEPT !.op = "render", !.id = id, !.txt = text, !.cb = cb,
                                   !.container = containerElement]
         /\ events' = <<>>
         /\ outcome' = "returned"
         /\ ret' = "undefined"
         /\ UNCHANGED <<config, tree, yy, hasRemove, document, mermaid>>
    ELSE render(id, text, cb, containerElement, fail, classes)

-----------------------------------------------------------------------------
(* parse and parseError *)

Parsers == {"flowParser", "dotParser", "sequenceParser", "infoParser", "ganttParser"}

\* The switch(graphType) of parse: the parser and the model bound to it as
\* parser.parser.yy; no case matches an unrecognized type and parser stays
\* undefined.
parserOf(graphType) ==
    CASE graphType = "graph"           -> [parser |-> "flowParser", yy |-> "graph"]
      [] graphType = "dotGraph"        -> [parser |-> "dotParser", yy |-> "graph"]
      [] graphType = "sequenceDiagram" -> [parser |-> "sequenceParser", yy |-> "sequenceDb"]
      [] graphType = "info"            -> [parser |-> "infoParser", yy |-> "infoDb"]
      [] graphType = "gantt"           -> [parser |-> "ganttParser", yy |-> "ganttDb"]
      [] OTHER                         -> [parser |-> "undefined", yy |-> "undefined"]

parseEv(parser, text, accepts) ==
    [NoEvent EXCEPT !.who = parser, !.op = "parse", !.txt = text, !.raised = ~accepts]

\* A parse whose parser.parse call stands outside the try.
tryParseUncaught(parser, accepts) ==
    IF parser = "undefined" THEN [ret |-> "undefined", outcome |-> "threw"]
    ELSE IF accepts THEN [ret |-> "true", outcome |-> "returned"]
    ELSE [ret |-> "undefined", outcome |-> "threw"]

\* try { parser.parse(text); return true; } catch(err) { return false; }
\* parser.parse on an undefined parser raises a TypeError inside the try.
tryParse(parser, accepts) ==
    IF parser = "undefined" THEN [ret |-> "false", outcome |-> "returned"]
    ELSE IF accepts THEN [ret |-> "true", outcome |-> "returned"]
    ELSE [ret |-> "false", outcome |-> "returned"]

\* var parse = function(text); accepts: whether the bound parser takes the text
parse(text, accepts) ==
    LET bound == parserOf(detectType(text))
    IN  /\ yy' = IF bound.parser # "undefined"
                 THEN [yy EXCEPT ![bound.parser] = bound.yy]
                 ELSE yy
        /\ events' = IF bound.parser # "undefined"
                     THEN <<parseEv(bound.parser, text, accepts)>>
                     ELSE <<>>
        /\ ret' = tryParse(bound.parser, accepts).ret
        /\ outcome' = tryParse(bound.parser, accepts).outcome
        /\ call' = [NoCall EXCEPT !.op = "parse", !.txt = text]
        /\ UNCHANGED <<config, tree, hasRemove, document, mermaid>>

handlerEv(handlerRaises) ==
    [NoEvent EXCEPT !.who = "mermaid", !.op = "parseError", !.raised = handlerRaises]

debugEv == [NoEvent EXCEPT !.who = "log", !.op = "debug"]

\* exports.parseError = function(err, hash)
parseError(handlerRaises) ==
    /\ IF mermaid # "undefined"
       THEN /\ events' = <<handlerEv(handlerRaises)>>
            /\ outcome' = IF handlerRaises THEN "threw" ELSE "returned"
       ELSE /\ events' = <<debugEv, debugEv>>
            /\ outcome' = "returned"
    /\ ret' = "undefined"
    /\ call' = [NoCall EXCEPT !.op = "parseError"]
    /\ UNCHANGED <<config, tree, yy, hasRemove, document, mermaid>>

-----------------------------------------------------------------------------
(* Specifications *)

\* The state once the module is loaded, in any environment.
Init ==
    /\ config = DefaultConfig
    /\ tree = [container |-> <<>>, body |-> <<>>]
    /\ yy = [p \in Parsers |-> "unset"]
    /\ hasRemove \in BOOLEAN
    /\ document \in {"undefined", "object"}
    /\ mermaid \in {"undefined", "object"}
    /\ call = NoCall
    /\ events = <<>>
    /\ outcome = "none"
    /\ ret = "undefined"

OverrideKeys == {"cloneCssStyles", "flowchart", "extra"}

OverrideValues ==
    {Scalar("false"), Null, Object(EmptyObj),
     Object([EmptyObj EXCEPT !["htmlLabels"] = "false"])}

Props == [key : OverrideKeys, value : OverrideValues]

RECURSIVE PropSeqs(_)
PropSeqs(n) ==
    IF n = 0 THEN {<<>>}
    ELSE PropSeqs(n - 1) \cup
         {Append(s, p) : s \in {q \in PropSeqs(n - 1) : Len(q) = n - 1}, p \in Props}

\* The arguments of initialize: objects of at most MaxOverrideKeys
\* properties with distinct keys, null, and undefined.
Overrides ==
    {ObjectOptions(s) :
        s \in {q \in PropSeqs(MaxOverrideKeys) :
                 \A i, j \in 1..Len(q) : i # j => q[i].key # q[j].key}}
    \cup {NullOptions, UndefinedOptions}

Initialize == \E o \in Overrides : initialize(o)

SpecConf == Init /\ [][Initialize]_vars

\* The initialize calls a page makes before it renders.
RenderOverrides ==
    {ObjectOptions(<<[key |-> "cloneCssStyles", value |-> Scalar("false")]>>),
     ObjectOptions(<<[key |-> "cloneCssStyles", value |-> Scalar("true")]>>),
     ObjectOptions(<<[key |-> "gantt",
                      value |-> Object([EmptyObj EXCEPT !["barHeight"] = "false"])]>>),
     ObjectOptions(<<[key |-> "flowchart",
                      value |-> Object([EmptyObj EXCEPT !["htmlLabels"] = "false"])]>>),
     ObjectOptions(<<[key |-> "sequenceDiagram",
                      value |-> Object([EmptyObj EXCEPT !["useMaxWidth"] = "false"])]>>)}

Configure == \E o \in RenderOverrides : initialize(o)

NodeCount == Len(DocOrder(tree))

\* The operations that can raise in a call: one that the call makes.
FailsOf(text, cb) ==
    LET plan == switchGraphType(detectType(text), text, NoId, {}, config)
    IN  {"none"} \cup {plan[i].op : i \in 1..Len(plan)}
        \cup (IF cb # "undefined" THEN {"cb"} ELSE {})

\* What getClasses can return in a call: a class set where it is called and
\* returns.
ClassesOf(text, fail) ==
    LET plan == switchGraphType(detectType(text), text, NoId, {}, config)
    IN  IF /\ \E i \in 1..Len(plan) : plan[i].op = "getClasses"
           /\ fail \notin {"setConf", "draw", "getClasses"}
        THEN ClassSets
        ELSE {{}}

Render ==
    \E id \in Ids, text \in Texts, cb \in {"undefined", "function"},
       container \in {"undefined", "selector"} :
        \E fail \in FailsOf(text, cb) :
            \E classes \in ClassesOf(text, fail) :
                /\ NodeCount < MaxNodes
                /\ exportsRender(id, text, cb, container, fail, classes)

NextRender == Configure \/ Render

\* render and initialize never read the global mermaid.
InitRender == Init /\ mermaid = "undefined"

SpecRender == InitRender /\ [][NextRender]_vars

Parse == \E text \in Texts, accepts \in BOOLEAN : parse(text, accepts)

ParseError == \E handlerRaises \in BOOLEAN : parseError(handlerRaises)

NextParse == Parse \/ ParseError

SpecParse == Init /\ [][NextParse]_vars

-----------------------------------------------------------------------------
(* Vocabulary of the properties *)

Renderers == {"flowRenderer", "seq", "gantt", "info"}

RecognizedTypes == {"graph", "dotGraph", "sequenceDiagram", "gantt", "info"}

\* The most recent call was a render that ran in a browser.
RenderedInBrowser == call.op = "render" /\ document # "undefined"

At(op) == {i \in 1..Len(events) : events[i].op = op}

Returned(e) == [e EXCEPT !.raised = FALSE]

rendererOf(graphType) ==
    CASE graphType \in {"graph", "dotGraph"} -> "flowRenderer"
      [] graphType = "sequenceDiagram"       -> "seq"
      [] graphType = "gantt"                 -> "gantt"
      [] OTHER                               -> "info"

namespaceOf(graphType) ==
    CASE graphType \in {"graph", "dotGraph"} -> "flowchart"
      [] graphType = "sequenceDiagram"       -> "sequenceDiagram"
      [] OTHER                               -> "gantt"

variantOf(graphType) ==
    CASE graphType = "graph"    -> "false"
      [] graphType = "dotGraph" -> "true"
      [] OTHER                  -> "none"

\* The level-2 value a store entry holds under k2 ("undefined" when the
\* entry is no namespace object).
Lvl2(v, k2) == IF v.kind = "object" THEN v.obj[k2] ELSE "undefined"

KeysOf(props) == {props[i].key : i \in 1..Len(props)}

ValueOf(props, key) == props[CHOOSE i \in 1..Len(props) : props[i].key = key].value

-----------------------------------------------------------------------------
(* C1 *)

\* C1: after every render call made in a browser, however it ended, no
\* scratch surface 'd'+id is left in the presentation tree.
C1_ScratchSurfaceRemoved ==
    RenderedInBrowser => selectNode(tree, call.id) = NoId

(* C2 *)

C3_MergedPerKey ==
    [][(/\ call'.op = "initialize"
        /\ call'.options.kind = "object"
        /\ \A i \in 1..Len(call'.options.props) :
              call'.options.props[i].value.kind \in {"scalar", "object"})
       => \A key \in ConfigKeys :
            IF key \notin KeysOf(call'.options.props)
            THEN config'[key] = config[key]
            ELSE LET v == ValueOf(call'.options.props, key)
                 IN  IF v.kind = "scalar"
                     THEN config'[key] = v
                     ELSE \A k2 \in Lvl2Keys :
                            IF k2 \in ObjectKeys(v.obj)
                            THEN Lvl2(config'[key], k2) = v.obj[k2]
                            ELSE Lvl2(config'[key], k2) = Lvl2(config[key], k2)]_vars

(* C4 *)

\* C4: no initialize call loses a key or replaces a namespace object: a
\* level-1 key present before is present after, a namespace object stays a
\* namespace object and keeps every level-2 key it had.
C4_NoKeyLost ==
    [][call'.op = "initialize"
       => \A key \in ConfigKeys :
            /\ config[key].kind # "undefined" => config'[key].kind # "undefined"
            /\ config[key].kind = "object"
                 => /\ config'[key].kind = "object"
                    /\ ObjectKeys(config[key].obj) \subseteq ObjectKeys(config'[key].obj)]_vars

(* C5 *)

\* C5 as stated: for a text of unrecognized type render calls no renderer,
\* clones no CSS and neither creates nor changes a scratch surface.
C5_NoSurfaceWhenUnrecognized ==
    (RenderedInBrowser /\ detectType(call.txt) = "unrecognized")
        => \A i \in 1..Len(events) :
              /\ events[i].who \notin Renderers
              /\ events[i].op \notin {"cloneCssStyles", "append", "remove"}

\* C5 as amended: for a text of unrecognized type render calls no renderer
\* and clones no CSS; the scratch surface is appended all the same, before
\* the type is detected, and the call goes on to the extraction.
C5_NoRendererWhenUnrecognized ==
    (RenderedInBrowser /\ detectType(call.txt) = "unrecognized")
        => /\ \A i \in 1..Len(events) :
                /\ events[i].who \notin Renderers
                /\ events[i].op \notin {"setConf", "draw", "getClasses", "cloneCssStyles"}
           /\ Len(events) >= 2
           /\ events[1] = appendEv(call.id)
           /\ events[2] = innerHTMLEv(call.id)

C5_Witness ==
    /\ RenderedInBrowser
    /\ detectType(call.txt) = "unrecognized"
    /\ outcome = "returned"
    /\ At("append") # {}
    /\ At("cb") # {}
    /\ selectNode(tree, call.id) = NoId

(* C6 *)

\* C6: exports.render always returns normally.
C6_RenderNeverThrows ==
    call.op = "render" => outcome = "returned"

(* C7 *)

\* C7: in a render call in a browser whose renderer does not raise, the
\* result is reported exactly once: with a callback, the callback is called
\* after the markup was extracted and before the surface is removed; with no
\* callback, a warning is logged, the call returns and the surface is removed.
C7_ReportedOnce ==
    (/\ RenderedInBrowser
     /\ \A i \in 1..Len(events) : events[i].who \in Renderers => ~events[i].raised)
        => /\ Cardinality(At("cb") \cup At("warn")) = 1
           /\ \A r \in At("cb") \cup At("warn") :
                /\ events[r].op = (IF call.cb # "undefined" THEN "cb" ELSE "warn")
                /\ \E x \in At("innerHTML") : x < r
                /\ \E d \in At("remove") : r < d
           /\ call.cb = "undefined" => outcome = "returned"

(* C8 *)

\* C8: a parse that returns false has routed the parser's diagnostic through
\* parseError exactly once: to the handler mermaid.parseError when the
\* global mermaid exists, to the log otherwise.
C8_FailureRoutedToParseError ==
    (call.op = "parse" /\ ret = "false")
        => /\ outcome = "returned"
           /\ IF mermaid # "undefined"
              THEN Cardinality(At("parseError")) = 1
              ELSE At("debug") # {}

(* C9 *)

\* C9: a render of a recognized type first appends the scratch surface,
\* then pushes the current configuration namespace of that type into the
\* renderer bound to the type (none for info), then, the setter having
\* returned, calls that renderer's draw once with the text, the id and the
\* variant flag (false for graph, true for dotGraph); no other renderer is
\* called and nothing is set or drawn twice.
C9_DispatchInOrder ==
    (RenderedInBrowser /\ detectType(call.txt) \in RecognizedTypes)
        => LET graphType == detectType(call.txt)
               who == rendererOf(graphType)
               draw == drawEv(who, call.txt, call.id, variantOf(graphType))
               d == IF graphType = "info" THEN 2 ELSE 3
           IN  /\ events[1] = appendEv(call.id)
               /\ \A i \in 1..Len(events) :
                     events[i].who \in Renderers => events[i].who = who
               /\ Cardinality(At("draw")) <= 1
               /\ IF graphType = "info"
                  THEN At("setConf") = {}
                  ELSE /\ At("setConf") = {2}
                       /\ Returned(events[2]) = setConfEv(who, config[namespaceOf(graphType)])
               /\ (graphType = "info" \/ ~events[2].raised)
                    => /\ At("draw") = {d}
                       /\ Returned(events[d]) = draw

\* A dotGraph rendered after initialize changed the flowchart namespace.
C9_Witness ==
    /\ RenderedInBrowser
    /\ detectType(call.txt) = "dotGraph"
    /\ outcome = "returned"
    /\ config["flowchart"] # DefaultConfig["flowchart"]
    /\ \E i \in At("draw") : events[i].flag = "true" /\ ~events[i].raised

(* C10 *)

\* What follows a draw that returned, for each type and value of the flag.
ClonedAsStated(unconditional) ==
    LET graphType == detectType(call.txt)
        d == IF graphType = "info" THEN 2 ELSE 3
        flagSet == truthy(config["cloneCssStyles"])
    IN  (Len(events) >= d /\ events[d].op = "draw" /\ ~events[d].raised)
        => IF graphType \in {"graph", "dotGraph"}
           THEN IF flagSet
                THEN /\ Len(events) > d
                     /\ events[d + 1].op = "getClasses"
                     /\ events[d + 1].who = "flowRenderer"
                     /\ events[d + 1].txt = call.txt
                     /\ events[d + 1].flag = events[d].flag
                     /\ ~events[d + 1].raised
                          => /\ Len(events) > d + 1
                             /\ Returned(events[d + 2])
                                  = cloneCssStylesEv(call.id, events[d + 1].classes)
                     /\ Cardinality(At("cloneCssStyles")) <= 1
                ELSE At("getClasses") = {} /\ At("cloneCssStyles") = {}
           ELSE /\ At("getClasses") = {}
                /\ IF flagSet \/ unconditional
                   THEN /\ Len(events) > d
                        /\ Returned(events[d + 1]) = cloneCssStylesEv(call.id, {})
                        /\ At("cloneCssStyles") = {d + 1}
                   ELSE At("cloneCssStyles") = {}

\* C10 as stated: with the flag set, a graph or dotGraph has getClasses
\* requested after draw with the same variant flag and its result passed to
\* the CSS clone; a sequenceDiagram, gantt or info gets the CSS clone with an
\* empty class set whatever the flag.
C10_CloneUnconditional ==
    (RenderedInBrowser /\ detectType(call.txt) \in RecognizedTypes)
        => ClonedAsStated(TRUE)

\* C10 as amended: the same, but a sequenceDiagram, gantt or info gets the
\* CSS clone with an empty class set only when the flag is set, and no
\* clone at all when it is not.
C10_CloneWhenFlagSet ==
    (RenderedInBrowser /\ detectType(call.txt) \in RecognizedTypes)
        => ClonedAsStated(FALSE)

\* A graph whose classes went from getClasses into the clone.
C10_Witness ==
    /\ RenderedInBrowser
    /\ detectType(call.txt) = "graph"
    /\ outcome = "returned"
    /\ \E i \in At("getClasses") :
          /\ events[i].classes # {}
          /\ events[i + 1] = cloneCssStylesEv(call.id, events[i].classes)

====
